---- MODULE Spec2Model ----
(***************************************************************************)
(* State-machine model of proton.session.api.Session                       *)
(* (src/proton/session/api.py).                                            *)
(*                                                                         *)
(* One Session object is shared by a fixed set of asyncio tasks.  A step   *)
(* of the model is one run of a coroutine between two suspension points    *)
(* (a Transport call, a back-off sleep, a wait on a cleared gate): the     *)
(* event loop is cooperative, so everything between two awaits that        *)
(* really suspend is atomic.                                               *)
(***************************************************************************)
EXTENDS Integers, Sequences, FiniteSets, TLC

(***************************************************************************)
(* Bounds of the model.                                                    *)
(***************************************************************************)
\* number of asyncio tasks sharing the session
NumTasks == 2
\* total number of operations the tasks start
MaxCalls == 2
\* operations started beyond MaxCalls while a request the gate woke has not
\* run yet
MaxPreempts == 1
\* total number of Transport calls that fail with an API error
MaxFailures == 3
\* discovery enumerations of one type that are counted
MaxRuns == 2

Tasks == 1..NumTasks

(***************************************************************************)
(* Python values.                                                          *)
(***************************************************************************)
None == [some |-> FALSE]
Some(x) == [some |-> TRUE, v |-> x]

\* The values a server-issued session carries: generation g of the tokens.
Uid(g) == Some(<<"uid", g>>)
AccessTok(g) == Some(<<"access", g>>)
RefreshTok(g) == Some(<<"refresh", g>>)

\* Scopes a response may carry.
ScopeSets == {{"twofactor"}, {"full"}}
Usernames == {"alice"}
EnvNames == {"prod", "atlas"}
\* Environments are the classes that implement them.
EnvClasses == {"ProdEnvironment", "AtlasEnvironment"}

\* Persistence observers, in registration order (register_persistence_observer).
Observers == <<"o1", "o2">>

\* async_api_request: attempts = 3
ApiAttempts == 3
\* async_refresh: attempts = 3
RefreshAttempts == 3

\* HTTP statuses of a failed Transport call.
HttpCodes == {400, 401, 403, 408, 409, 422, 429, 500, 502, 503}
\* Body-level error codes: 8002 is "invalid credentials", 2000 any other.
BodyCodes == {8002, 2000}

VARIABLES
    session,    \* the fields of the Session object
    tasks,      \* per task: the coroutine it runs, its position and locals
    ev,         \* the last step: who ran, the answer consumed, the outcome
    ncalls,     \* operations started so far
    nfail,      \* Transport calls that failed so far
    loader      \* the Loader singleton, its surroundings and its last call

vars == <<session, tasks, ev, ncalls, nfail, loader>>

(***************************************************************************)
(* Session.__init__                                                        *)
(***************************************************************************)
NewSession ==
    [ UID |-> None, AccessToken |-> None, RefreshToken |-> None,
      Scopes |-> None, AccountName |-> None,
      twoFA |-> None,               \* self.__2FA
      refresh_revision |-> 0,
      transport |-> FALSE,          \* self.__transport is not None
      can_run_requests |-> "None",  \* None | "set" | "clear" (asyncio.Event)
      environment |-> None ]

\* A task that runs no coroutine.  The fields are the locals of the
\* coroutine it runs, and a record of what that coroutine did.
IdleTask ==
    [ op |-> "idle", pc |-> "idle",
      ncc |-> FALSE,         \* no_condition_check
      attempts |-> 0,        \* async_api_request: attempts
      rattempts |-> 0,       \* async_refresh: attempts
      rv0 |-> 0,             \* refresh_revision_at_start
      only |-> None,         \* only_when_refresh_revision_is
      sentAuth |-> FALSE,    \* the call in flight was sent with a UID
      holds |-> FALSE,       \* closed the gate and has not re-opened it
      obs |-> <<>>,          \* observer notifications of its last lock/unlock
      sentLog |-> <<>>,      \* endpoints handed to the Transport by this call
      nrf |-> 0,             \* invocations of async_refresh by this call
      rfRet |-> "none",      \* what its last async_refresh returned
      rfSkipped |-> FALSE,   \* its last async_refresh took the no-op exit
      solo |-> TRUE ]        \* no other coroutine ran while this one did

NewTask(op, ncc) == [IdleTask EXCEPT !.op = op, !.pc = "run", !.ncc = ncc]

\* What a step reports when no coroutine ended in it.
NoOutcome == [ret |-> "none", raised |-> 0, frame |-> IdleTask]

\* Session.authenticated
authenticated(s) == s.UID # None

\* Session.needs_twofa
needs_twofa(s) ==
    IF s.Scopes = None THEN FALSE ELSE "twofactor" \in s.Scopes.v

\* Environment.name: the class name without 'Environment', in lower case.
EnvironmentName(cls) ==
    CASE cls = "ProdEnvironment" -> "prod"
      [] cls = "AtlasEnvironment" -> "atlas"

\* Loader.get('environment')(): the default environment (highest priority).
DefaultEnvironment == "ProdEnvironment"

\* Session.environment (getter): resolves the default lazily.
environment_get(s) ==
    IF s.environment = None
    THEN [s EXCEPT !.environment = Some(DefaultEnvironment)]
    ELSE s

\* Session.environment (setter): what it raises ("none" when it returns)
\* and the session it leaves.
environment_set(s, newvalue) ==
    IF s.environment # None THEN [s |-> s, raised |-> "ValueError"]
    ELSE IF newvalue = None THEN [s |-> s, raised |-> "none"]
    ELSE IF newvalue.v \notin EnvClasses THEN [s |-> s, raised |-> "TypeError"]
    ELSE [s |-> [s EXCEPT !.environment = newvalue], raised |-> "none"]

\* Session.__getstate__ : the snapshot (and the session, whose environment
\* the getter may have resolved).
EmptySnapshot == [set |-> FALSE]
getstate(s) ==
    IF s.UID = None
    THEN [data |-> EmptySnapshot, s |-> s]
    ELSE LET s2 == environment_get(s) IN
         [data |-> [set |-> TRUE, UID |-> s2.UID, AccessToken |-> s2.AccessToken,
                    RefreshToken |-> s2.RefreshToken, Scopes |-> s2.Scopes,
                    Environment |-> Some(EnvironmentName(s2.environment.v)),
                    AccountName |-> s2.AccountName],
          s |-> s2]

RECURSIVE Notify(_, _, _)
\* for observer in order: observer.<kind>(account_name, session_data)
Notify(kind, order, i) ==
    IF i > Len(order) THEN <<>>
    ELSE <<[kind |-> kind, observer |-> order[i]]>> \o Notify(kind, order, i + 1)

RECURSIVE reversed(_)
reversed(q) == IF q = <<>> THEN <<>> ELSE Append(reversed(Tail(q)), Head(q))

(***************************************************************************)
(* The Transport and the API behind it (external collaborators).           *)
(***************************************************************************)
Data ==
    [ ok |-> TRUE, http |-> 0, body |-> 0,
      scopes |-> {"full"},   \* ret['Scopes']
      twofa |-> FALSE,       \* '2FA' in auth_response
      code |-> 1000,         \* ret.get('Code')
      proof |-> "good",      \* ServerProof: absent | bad | good
      valid |-> TRUE,        \* gnupg: verified.valid
      fingerprint |-> TRUE,  \* verified.fingerprint is the trusted one
      challenge |-> TRUE ]   \* the SRP engine accepts the server challenge

ApiErrors(bodies) ==
    {[Data EXCEPT !.ok = FALSE, !.http = h, !.body = b] : h \in HttpCodes, b \in bodies}

\* What a call may come back with.  The endpoints that act on the session
\* answer with data only to a call that was sent with a UID.
TransportAnswers(ep, sentAuth) ==
    CASE ep = "request" ->
            {Data} \cup ApiErrors({2000})
      [] ep = "/auth/info" ->
            {[Data EXCEPT !.valid = c[1], !.fingerprint = c[2], !.challenge = c[3]] :
                c \in {<<TRUE, TRUE, TRUE>>, <<FALSE, TRUE, TRUE>>,
                       <<TRUE, FALSE, TRUE>>, <<TRUE, TRUE, FALSE>>}}
            \cup ApiErrors({2000})
      [] ep = "/auth" ->
            {[Data EXCEPT !.proof = "absent"], [Data EXCEPT !.proof = "bad"]}
            \cup {[Data EXCEPT !.scopes = sc, !.twofa = f] :
                     sc \in ScopeSets, f \in BOOLEAN}
            \cup ApiErrors(BodyCodes)
      [] ep = "/auth/2fa" ->
            (IF sentAuth
             THEN {[Data EXCEPT !.scopes = sc, !.code = c] :
                      sc \in ScopeSets, c \in {1000, 2000}}
             ELSE {})
            \cup ApiErrors({2000})
      [] ep \in {"/auth/refresh", "/auth/scopes"} ->
            (IF sentAuth THEN {[Data EXCEPT !.scopes = sc] : sc \in ScopeSets} ELSE {})
            \cup ApiErrors({2000})
      [] OTHER ->  \* "DELETE /auth", "/users/lock"
            (IF sentAuth THEN {Data} ELSE {}) \cup ApiErrors({2000})

\* The API issues tokens that differ from those the session holds: the
\* generation of the tokens of its next successful answer.
IssuedGen(s) ==
    IF s.AccessToken = None THEN 1 ELSE (s.AccessToken.v[2] % 2) + 1

\* ProtonAPIError.code, as async_logout reads it: the status of the failure.
ErrCode(o) == o.http

(***************************************************************************)
(* The gate and the persistence observers.                                 *)
(* A machine state m is [s |-> the session, ts |-> the tasks, out |-> the   *)
(* outcome of the coroutine that ended, if one did].                       *)
(***************************************************************************)
\* Session._requests_lock
RequestsLock(m, t, no_condition_check) ==
    IF no_condition_check THEN m
    ELSE [m EXCEPT !.s = [getstate(m.s).s EXCEPT !.can_run_requests = "clear"],
                   !.ts[t].holds = TRUE,
                   !.ts[t].obs = Notify("acquire", Observers, 1)]

\* asyncio.Event.set(): every task suspended in wait() is made runnable.
WakeWaiters(ts) ==
    [u \in DOMAIN ts |->
        IF ts[u].pc = "req_wait" THEN [ts[u] EXCEPT !.pc = "req_woken"] ELSE ts[u]]

\* Session._requests_unlock
RequestsUnlock(m, t, no_condition_check) ==
    IF no_condition_check THEN m
    ELSE [m EXCEPT !.s = [getstate(m.s).s EXCEPT !.can_run_requests = "set"],
                   !.ts = [WakeWaiters(m.ts) EXCEPT
                             ![t].holds = FALSE,
                             ![t].obs = m.ts[t].obs \o
                                        Notify("release", reversed(Observers), 1)]]

\* self.__transport.async_api_request(...): the coroutine suspends on the call.
Send(m, t, ep, netpc) ==
    [m EXCEPT !.s.transport = TRUE,
              !.ts[t].pc = netpc,
              !.ts[t].sentLog = Append(m.ts[t].sentLog, ep),
              !.ts[t].sentAuth = authenticated(m.s)]

\* Session._requests_wait: must the caller suspend on the gate?
MustWait(gate, no_condition_check) ==
    ~(no_condition_check \/ gate = "None") /\ gate # "set"

\* Session.__async_api_request_internal, up to its first suspension.
InternalRequest(m, t, ep, no_condition_check, netpc) ==
    IF MustWait(m.s.can_run_requests, no_condition_check)
    THEN [m EXCEPT !.s.transport = TRUE, !.ts[t].pc = "req_wait"]
    ELSE Send(m, t, ep, netpc)

\* The coroutine of task t ends: it returns a value or raises.
Finish(m, t, result, http) ==
    [m EXCEPT !.ts[t] = IdleTask,
              !.out = [ret |-> result, raised |-> http, frame |-> m.ts[t]]]

(***************************************************************************)
(* Session.async_api_request                                               *)
(***************************************************************************)
\* while attempts > 0: ... ; falling out of the loop returns None
ApiLoop(m, t) ==
    IF m.ts[t].attempts > 0
    THEN InternalRequest(
            [m EXCEPT !.ts[t].attempts = @ - 1,
                      !.ts[t].rv0 = m.s.refresh_revision],
            t, "request", m.ts[t].ncc, "req_net")
    ELSE Finish(m, t, "None", 0)

\* Mutant: 401 is retried like 408 and 502, without a refresh.
Classify_401Retried(http, twofa) ==
    CASE http = 403 -> IF twofa THEN "ProtonAPI2FANeeded"
                                ELSE "ProtonAPIMissingScopeError"
      [] http \in {401, 408, 502} -> "retry"
      [] http \in {429, 503} -> "sleep"
      [] OTHER -> "raise"

\* Mutant: every status from 500 up is retried.
Classify_5xxRetried(http, twofa) ==
    CASE http = 403 -> IF twofa THEN "ProtonAPI2FANeeded"
                                ELSE "ProtonAPIMissingScopeError"
      [] http = 401 -> "refresh"
      [] http = 408 \/ http >= 500 -> IF http \in {429, 503} THEN "sleep" ELSE "retry"
      [] http = 429 -> "sleep"
      [] OTHER -> "raise"

\* The except clause of async_api_request: what a status leads to.
Classify(http, twofa) ==
    CASE http = 403 -> IF twofa THEN "ProtonAPI2FANeeded"
                                ELSE "ProtonAPIMissingScopeError"
      [] http = 401 -> "refresh"
      [] http \in {408, 502} -> "retry"
      [] http \in {429, 503} -> "sleep"
      [] OTHER -> "raise"

(***************************************************************************)
(* Session.async_refresh                                                   *)
(***************************************************************************)
\* async_refresh returns val to its caller.
RefreshReturn(m, t, val) ==
    LET m1 == [m EXCEPT !.ts[t].rfRet = val] IN
    IF m1.ts[t].op = "refresh" THEN Finish(m1, t, val, 0)
    ELSE IF val = "True" THEN ApiLoop(m1, t)
    ELSE Finish(m1, t, "ProtonAPIAuthenticationNeeded", 401)

\* while attempts > 0: ... finally: self._requests_unlock(...)
RefreshLoop(m, t) ==
    IF m.ts[t].rattempts > 0
    THEN InternalRequest([m EXCEPT !.ts[t].rattempts = @ - 1],
                         t, "/auth/refresh", TRUE, "rf_net")
    ELSE RefreshReturn(RequestsUnlock(m, t, m.ts[t].ncc), t, "None")

\* "If we have the correct revision, and it doesn't match, then just exit"
RevisionMoved(live, only) == only # None /\ live # live

\* async_refresh from its entry to its first suspension
Refresh(m, t, only) ==
    LET ncc == m.ts[t].ncc
        m1 == RequestsLock([m EXCEPT !.ts[t].only = only,
                                     !.ts[t].nrf = @ + 1,
                                     !.ts[t].rfRet = "none",
                                     !.ts[t].rfSkipped = FALSE], t, ncc)
    IN  IF RevisionMoved(m1.s.refresh_revision, only)
        THEN RefreshReturn(
                RequestsUnlock([m1 EXCEPT !.ts[t].rfSkipped = TRUE], t, ncc),
                t, "True")
        ELSE RefreshLoop([m1 EXCEPT !.s.refresh_revision = @ + 1,
                                    !.ts[t].rattempts = RefreshAttempts], t)

\* Mutant: only 400 asks for a new login.
RefreshClassify_No422(http) ==
    CASE http = 409 -> "retry"
      [] http \in {429, 503} -> "sleep"
      [] http = 400 -> "relogin"
      [] OTHER -> "fail"

\* The except clause of async_refresh.
RefreshClassify(http) ==
    CASE http = 409 -> "retry"
      [] http \in {429, 503} -> "sleep"
      [] http \in {400, 422} -> "relogin"
      [] OTHER -> "fail"

\* Mutant: the scopes survive the erasure.
ClearCredentials_KeepScopes(s) ==
    [s EXCEPT !.UID = None, !.AccessToken = None, !.RefreshToken = None]

\* "Needs re-login" / "Erase any information we have about the session"
ClearCredentials(s) ==
    [s EXCEPT !.UID = None, !.AccessToken = None,
              !.RefreshToken = None, !.Scopes = None]

\* async_refresh resumes with the answer o of its refresh call; g is the
\* generation of the tokens the API issues with a successful answer.
RefreshResume(m, t, o, g) ==
    LET ncc == m.ts[t].ncc IN
    IF o.ok
    THEN RefreshReturn(
            RequestsUnlock([m EXCEPT !.s.AccessToken = AccessTok(g),
                                     !.s.RefreshToken = RefreshTok(g),
                                     !.s.Scopes = Some(o.scopes)], t, ncc),
            t, "True")
    ELSE LET k == RefreshClassify(o.http)
         IN  CASE k = "retry" -> RefreshLoop(m, t)
               [] k = "sleep" -> [m EXCEPT !.ts[t].pc = "rf_sleep"]
               [] k = "relogin" ->
                    RefreshReturn(
                        RequestsUnlock([m EXCEPT !.s = ClearCredentials(@)], t, ncc),
                        t, "False")
               [] OTHER -> RefreshReturn(RequestsUnlock(m, t, ncc), t, "False")

\* async_api_request resumes with the answer o of the call it made.
ApiResume(m, t, o) ==
    IF o.ok THEN Finish(m, t, "data", 0)
    ELSE LET k == Classify(o.http, needs_twofa(m.s))
         IN  CASE k = "refresh" -> Refresh(m, t, Some(m.ts[t].rv0))
               [] k = "retry" -> ApiLoop(m, t)
               [] k = "sleep" -> [m EXCEPT !.ts[t].pc = "req_sleep"]
               [] k = "raise" -> Finish(m, t, "ProtonAPIError", o.http)
               [] OTHER -> Finish(m, t, k, o.http)

(***************************************************************************)
(* Session.async_logout                                                    *)
(***************************************************************************)
\* async_logout resumes with the answer o of the session-delete call and
\* ends: the value it returns, or "raise" for the error it lets through.
\* no_condition_check is the argument of this invocation of async_logout.
LogoutResume(m, t, o, no_condition_check) ==
    IF o.ok
    THEN [m |-> RequestsUnlock([m EXCEPT !.s = ClearCredentials(@)],
                               t, no_condition_check),
          ret |-> "True"]
    ELSE [m |-> RequestsUnlock(m, t, no_condition_check),
          ret |-> IF ErrCode(o) # 401 THEN "raise" ELSE "None"]

\* Mutant: the session-delete call is made whatever the session holds.
Logout_NoShortcut(m, t, no_condition_check) ==
    [m |-> InternalRequest(RequestsLock(m, t, no_condition_check),
                           t, "DELETE /auth", TRUE, "lo_net"),
     done |-> FALSE]

\* async_logout from its entry: "No-op if not authenticated", else the
\* session-delete call.  done tells whether it returned at once.
Logout(m, t, no_condition_check) ==
    IF ~authenticated(m.s)
    THEN [m |-> m, done |-> TRUE]
    ELSE [m |-> InternalRequest(RequestsLock(m, t, no_condition_check),
                                t, "DELETE /auth", TRUE, "lo_net"),
          done |-> FALSE]

(***************************************************************************)
(* Session.async_authenticate                                              *)
(***************************************************************************)
\* Mutant: the fingerprint of the signing key is not compared.
verify_modulus_AnyKey(valid, fingerprint) == valid

\* Session._verify_modulus: TRUE when the modulus is accepted
verify_modulus(valid, fingerprint) == valid /\ fingerprint

\* try: info_response = await ...("/auth/info", ...)
AuthInfo(m, t) == InternalRequest(m, t, "/auth/info", TRUE, "info_net")

\* async_authenticate from its entry to its first suspension
Authenticate(m, t) ==
    LET m1 == RequestsLock(m, t, m.ts[t].ncc)
        lo == Logout(m1, t, TRUE)
    IN  IF lo.done THEN AuthInfo(lo.m, t) ELSE lo.m

\* await self.async_logout(no_condition_check=True) comes back (it is not
\* inside the try: an error it raises leaves async_authenticate at once)
AuthAfterLogout(m, t, o) ==
    LET lo == LogoutResume(m, t, o, TRUE) IN
    IF lo.ret = "raise" THEN Finish(lo.m, t, "ProtonAPIError", o.http)
    ELSE AuthInfo(lo.m, t)

\* the answer o to "/auth/info": modulus, challenge, then the login proof
AuthAfterInfo(m, t, o) ==
    LET ncc == m.ts[t].ncc IN
    IF ~o.ok
    THEN Finish(RequestsUnlock(m, t, ncc), t, "ProtonAPIError", o.http)
    ELSE IF ~verify_modulus(o.valid, o.fingerprint)
    THEN Finish(RequestsUnlock(m, t, ncc), t, "ProtonCryptoError", 0)
    ELSE IF ~o.challenge   \* client_proof is None
    THEN Finish(RequestsUnlock(m, t, ncc), t, "ProtonCryptoError", 0)
    ELSE InternalRequest(m, t, "/auth", TRUE, "auth_net")

\* the answer o to "/auth"; g is the generation of the session the API opens
AuthAfterProof(m, t, o, g, username) ==
    LET ncc == m.ts[t].ncc IN
    IF ~o.ok
    THEN IF o.body = 8002
         THEN Finish(RequestsUnlock(m, t, ncc), t, "False", 0)
         ELSE Finish(RequestsUnlock(m, t, ncc), t, "ProtonAPIError", o.http)
    ELSE IF o.proof = "absent"
    THEN Finish(RequestsUnlock(m, t, ncc), t, "False", 0)
    ELSE IF o.proof # "good"   \* not usr.authenticated()
    THEN Finish(RequestsUnlock(m, t, ncc), t, "ProtonCryptoError", 0)
    ELSE Finish(
            RequestsUnlock(
                [m EXCEPT !.s.UID = Uid(g),
                          !.s.AccessToken = AccessTok(g),
                          !.s.RefreshToken = RefreshTok(g),
                          !.s.Scopes = Some(o.scopes),
                          !.s.AccountName = Some(username),
                          !.s.twoFA = IF o.twofa THEN Some("2FA") ELSE None],
                t, ncc),
            t, "True", 0)

(***************************************************************************)
(* Session.async_provide_2fa                                               *)
(***************************************************************************)
Provide2fa(m, t) ==
    InternalRequest(RequestsLock(m, t, m.ts[t].ncc), t, "/auth/2fa", TRUE, "tfa_net")

Provide2faResume(m, t, o) ==
    LET ncc == m.ts[t].ncc IN
    IF ~o.ok
    THEN Finish(RequestsUnlock(m, t, ncc), t, "ProtonAPIError", o.http)
    ELSE LET m1 == [m EXCEPT !.s.Scopes = Some(o.scopes)] IN
         IF o.code = 1000
         THEN Finish(RequestsUnlock([m1 EXCEPT !.s.twoFA = None], t, ncc),
                     t, "True", 0)
         ELSE Finish(RequestsUnlock(m1, t, ncc), t, "False", 0)

(***************************************************************************)
(* Session.async_lock                                                      *)
(***************************************************************************)
Lock(m, t) ==
    InternalRequest(RequestsLock(m, t, m.ts[t].ncc), t, "/users/lock", TRUE, "lock_net")

\* the answer to '/users/lock'
LockResume(m, t, o) ==
    IF ~o.ok
    THEN Finish(RequestsUnlock(m, t, m.ts[t].ncc), t, "ProtonAPIError", o.http)
    ELSE InternalRequest(m, t, "/auth/scopes", TRUE, "scopes_net")

\* the answer to '/auth/scopes'
LockScopesResume(m, t, o) ==
    LET ncc == m.ts[t].ncc IN
    IF ~o.ok
    THEN Finish(RequestsUnlock(m, t, ncc), t, "ProtonAPIError", o.http)
    ELSE Finish(RequestsUnlock([m EXCEPT !.s.Scopes = Some(o.scopes)], t, ncc),
                t, "True", 0)

\* top-level async_logout resumes
LogoutTop(m, t, o) ==
    LET lo == LogoutResume(m, t, o, m.ts[t].ncc) IN
    IF lo.ret = "raise" THEN Finish(lo.m, t, "ProtonAPIError", o.http)
    ELSE Finish(lo.m, t, lo.ret, 0)

(***************************************************************************)
(* Session.__setstate__ (load / restore)                                   *)
(***************************************************************************)
\* Environment.get_environment(name)
get_environment(name) ==
    IF name = None THEN Some(DefaultEnvironment)
    ELSE Some(CHOOSE cls \in EnvClasses : EnvironmentName(cls) = name.v)

\* data.get(key, None)
DataGet(data, key) == IF data.set THEN data[key] ELSE None

\* Mutant: the account name is not restored.
setstate_KeepAccountName(s, data) ==
    [s EXCEPT !.UID = DataGet(data, "UID"),
              !.AccessToken = DataGet(data, "AccessToken"),
              !.RefreshToken = DataGet(data, "RefreshToken"),
              !.Scopes = DataGet(data, "Scopes"),
              !.transport = FALSE,
              !.environment = get_environment(DataGet(data, "Environment"))]

setstate(s, data) ==
    [s EXCEPT !.UID = DataGet(data, "UID"),
              !.AccessToken = DataGet(data, "AccessToken"),
              !.RefreshToken = DataGet(data, "RefreshToken"),
              !.Scopes = DataGet(data, "Scopes"),
              !.AccountName = DataGet(data, "AccountName"),
              !.transport = FALSE,
              !.environment = get_environment(DataGet(data, "Environment"))]

\* Session.load(dump): cls() and then __setstate__(dump)
load(dump) == setstate(NewSession, dump)

\* Session.dump
dump(s) == getstate(s).data

\* The snapshots a caller restores: what dump() of a session can return.
\* Generation 0 stands for tokens issued to an earlier process.
Snapshots ==
    {EmptySnapshot} \cup
    {[set |-> TRUE, UID |-> Uid(0), AccessToken |-> AccessTok(0),
      RefreshToken |-> RefreshTok(0), Scopes |-> Some(c[1]),
      Environment |-> Some(c[2]), AccountName |-> Some("bob")] :
        c \in {<<{"twofactor"}, "prod">>, <<{"full"}, "atlas">>}}

(***************************************************************************)
(* proton.loader.Loader (src/proton/loader/loader.py).                     *)
(* A dict is the sequence of its items in insertion order.                 *)
(***************************************************************************)
TypeNames == {"transport", "keyring"}
\* Names of implementations, in the order Python compares them as strings.
NamesInOrder == <<"a", "b", "c", "d">>
ClassNames == {NamesInOrder[i] : i \in DOMAIN NamesInOrder}
\* A name no implementation has.
UnknownName == "z"
\* The pluggable classes.
Classes == {"A", "B", "C", "D"}

\* cls._get_priority()
get_priority(cls) ==
    CASE cls = "D" -> Some(10)
      [] cls = "C" -> None
      [] OTHER -> Some(5)

\* hasattr(cls, '_validate') and what cls._validate() answers
has_validate(cls) == cls \in {"A", "B"}
validate(cls) == cls = "B"

\* metadata.entry_points(): the groups of the installation.  An entry
\* point is its name, the class its load() gives and how load() ends: "ok",
\* "AttributeError" (the module lacks the attribute) or "ImportError" (the
\* module cannot be imported).
Installations == {"shadowed", "unimportable"}
EntryPoints(installation, group) ==
    CASE group = "proton_loader_transport" /\ installation = "shadowed" ->
            << [name |-> "a", cls |-> "D", load |-> "ok"],
               [name |-> "b", cls |-> "A", load |-> "AttributeError"],
               [name |-> "b", cls |-> "B", load |-> "ok"],
               [name |-> "c", cls |-> "C", load |-> "ok"] >>
      [] group = "proton_loader_transport" /\ installation = "unimportable" ->
            << [name |-> "a", cls |-> "D", load |-> "ok"],
               [name |-> "b", cls |-> "B", load |-> "ImportError"],
               [name |-> "c", cls |-> "C", load |-> "ok"] >>
      [] group = "proton_loader_keyring" ->
            << [name |-> "b", cls |-> "A", load |-> "ok"],
               [name |-> "a", cls |-> "B", load |-> "ok"],
               [name |-> "b", cls |-> "C", load |-> "ok"] >>
      [] OTHER -> <<>>

\* Loader._get_metadata_group_for_typename
get_metadata_group_for_typename(type_name) ==
    CASE type_name = "transport" -> "proton_loader_transport"
      [] type_name = "keyring" -> "proton_loader_keyring"

\* Loader.__init__ ; overrides is os.environ['PROTON_LOADER_OVERRIDES'],
\* res is what the last call on the Loader gave.
NoResult == [op |-> "none", type_name |-> "none", class_name |-> None,
             ret |-> "none", list |-> <<>>, cls |-> None]
\* installation is what metadata.entry_points() gives in this process.
\* pending is the type of the get_all call of a thread that has left the
\* locked section and not yet read the overrides.  runs counts, up to
\* MaxRuns, the discovery enumerations of a type since the last reset, and
\* origin tells where its dict comes from.
NewLoader ==
    [ known_types |-> [ty \in TypeNames |-> None],
      name_resolution_cache |-> [c \in Classes |-> None],
      overrides |-> <<>>,
      installation |-> "shadowed",
      pending |-> None,
      runs |-> [ty \in TypeNames |-> 0],
      origin |-> [ty \in TypeNames |-> "none"],
      res |-> NoResult ]

\* The items of a dict and its keys.
RECURSIVE DictGet(_, _)
DictGet(d, k) ==
    IF d = <<>> THEN None
    ELSE IF Head(d).name = k THEN Some(Head(d).cls) ELSE DictGet(Tail(d), k)
HasKey(d, k) == DictGet(d, k) # None

\* get_all, discovery: "for ep in entry_points", with the dict and the
\* reverse-lookup cache built so far.  raised is what ends the loop early:
\* the RuntimeError of two entry points with the same name (the type is
\* deleted first), or the exception of load() that is not caught.
RECURSIVE Discover(_, _, _, _)
Discover(eps, type_name, dict, cache) ==
    IF eps = <<>> THEN [raised |-> "none", dict |-> dict, cache |-> cache]
    ELSE LET ep == Head(eps) IN
         IF HasKey(dict, ep.name)
         THEN [raised |-> "RuntimeError: 2 modules with same name",
               dict |-> <<>>, cache |-> cache]
         ELSE IF ep.load = "AttributeError"   \* warn and continue
         THEN Discover(Tail(eps), type_name, dict, cache)
         ELSE IF ep.load # "ok"
         THEN [raised |-> ep.load, dict |-> dict, cache |-> cache]
         ELSE Discover(Tail(eps), type_name,
                       Append(dict, [name |-> ep.name, cls |-> ep.cls]),
                       [cache EXCEPT ![ep.cls] = Some(<<type_name, ep.name>>)])

\* A token of PROTON_LOADER_OVERRIDES is 'type=name' or 'type=-name'.
\* [x[len(type_name)+1:] for x in overrides if x.startswith(f'{type_name}=')]
OverridesFor(overrides, type_name) ==
    LET mine == SelectSeq(overrides, LAMBDA x : x.type = type_name) IN
    [i \in DOMAIN mine |-> [minus |-> mine[i].minus, name |-> mine[i].name]]

\* set([x for x in overrides if not x.startswith('-')])
ForceClass(ov) == {ov[i].name : i \in {j \in DOMAIN ov : ~ov[j].minus}}

\* '-' + k in overrides
Excluded(ov, k) == \E i \in DOMAIN ov : ov[i].minus /\ ov[i].name = k

\* Tuple comparison of two PluggableComponent with a priority: by priority,
\* then by class_name (the names of one type differ, so cls is never reached).
NameRank(n) == CHOOSE i \in DOMAIN NamesInOrder : NamesInOrder[i] = n
ComponentLess(x, y) ==
    \/ x.priority.v < y.priority.v
    \/ (x.priority.v = y.priority.v
        /\ NameRank(x.class_name) < NameRank(y.class_name))

\* Mutant: the list is left in the order of the dict.
SortReverse_NotSorted(q) == q

\* acceptable_classes_with_prio.sort(reverse=True)
RECURSIVE InsertReverse(_, _)
InsertReverse(x, q) ==
    IF q = <<>> THEN <<x>>
    ELSE IF ComponentLess(Head(q), x) THEN <<x>> \o q
    ELSE <<Head(q)>> \o InsertReverse(x, Tail(q))
RECURSIVE SortReverse(_)
SortReverse(q) ==
    IF q = <<>> THEN <<>> ELSE InsertReverse(Head(q), SortReverse(Tail(q)))

\* Lines 205-213 of get_all: the components of dict d, given the list of
\* acceptable entry points.
Components(d, acceptable) ==
    LET comp(i, ok) == [priority |-> IF ok THEN get_priority(d[i].cls) ELSE None,
                        class_name |-> d[i].name, cls |-> d[i].cls]
        inAcc(i) == \E j \in DOMAIN acceptable : acceptable[j] = d[i].name
        all == [i \in DOMAIN d |-> comp(i, TRUE)]
        idx == [i \in DOMAIN d |-> i]
        acc == SelectSeq(idx, inAcc)
        rej == SelectSeq(idx, LAMBDA i : ~inAcc(i))
        classes == [k \in DOMAIN acc |-> comp(acc[k], TRUE)]
                   \o [k \in DOMAIN rej |-> comp(rej[k], FALSE)]
        with_prio == SelectSeq(classes, LAMBDA c : c.priority # None)
        without_prio == SelectSeq(classes, LAMBDA c : c.priority = None)
    IN  SortReverse(with_prio) \o without_prio

\* get_all, "with self.__lock: if type_name not in self.__known_types":
\* the locked section, which no other get_all overlaps.  It gives the state
\* it leaves and what it raised.
Discovery(L, type_name) ==
    IF L.known_types[type_name] # None THEN [L |-> L, raised |-> "none"]
    ELSE LET found == Discover(EntryPoints(L.installation,
                                   get_metadata_group_for_typename(type_name)),
                               type_name, <<>>, L.name_resolution_cache)
             aborted == found.raised = "RuntimeError: 2 modules with same name"
         IN [L |-> [L EXCEPT
                      !.known_types[type_name] =
                          IF aborted THEN None ELSE Some(found.dict),
                      !.name_resolution_cache = found.cache,
                      !.runs[type_name] = IF @ < MaxRuns THEN @ + 1 ELSE @,
                      !.origin[type_name] =
                          IF aborted THEN "none" ELSE "discovery"],
             raised |-> found.raised]

\* get_all after the locked section: the overrides are read and the list is
\* built from self.__known_types[type_name] as it is by then.
Filter(L, type_name) ==
    LET ov == OverridesFor(L.overrides, type_name)
        force_class == ForceClass(ov)
        known == L.known_types[type_name] # None
        d == IF known THEN L.known_types[type_name].v ELSE <<>>
        keys == [i \in DOMAIN d |-> d[i].name]
    IN  IF Cardinality(force_class) > 1
        THEN [ret |-> "RuntimeError: multiple force", list |-> <<>>]
        ELSE IF ~known
        THEN [ret |-> "KeyError", list |-> <<>>]
        ELSE IF Cardinality(force_class) = 1
        THEN LET f == CHOOSE n \in force_class : TRUE IN
             IF HasKey(d, f)
             THEN [ret |-> "list", list |-> Components(d, <<f>>)]
             \* acceptable_entry_points is not bound: reading it raises
             ELSE IF d # <<>>
             THEN [ret |-> "UnboundLocalError", list |-> <<>>]
             ELSE [ret |-> "list", list |-> <<>>]
        ELSE [ret |-> "list",
              list |-> Components(d, SelectSeq(keys, LAMBDA k : ~Excluded(ov, k)))]

\* Loader.get_all(type_name) on Loader state L, run without another thread
\* in between: the state it leaves, how it ends and, when it returns, the
\* list.
get_all(L, type_name) ==
    LET found == Discovery(L, type_name)
        r == Filter(found.L, type_name)
    IN  IF found.raised # "none"
        THEN [L |-> found.L, ret |-> found.raised, list |-> <<>>]
        ELSE [L |-> found.L, ret |-> r.ret, list |-> r.list]

\* Mutant: the validation hook is not consulted.
Pick_NoValidation(entries, class_name) ==
    LET hits == SelectSeq(entries,
                    LAMBDA e : IF class_name # None THEN e.class_name = class_name.v
                               ELSE e.priority # None)
    IN  IF hits = <<>> THEN None ELSE Some(Head(hits).cls)

\* Loader.get: "for entry in acceptable_classes"
RECURSIVE Pick(_, _)
Pick(entries, class_name) ==
    IF entries = <<>> THEN None
    ELSE LET entry == Head(entries) IN
         IF class_name # None
         THEN IF entry.class_name = class_name.v THEN Some(entry.cls)
              ELSE Pick(Tail(entries), class_name)
         ELSE IF entry.priority = None THEN Pick(Tail(entries), class_name)
         ELSE IF has_validate(entry.cls)
         THEN IF validate(entry.cls) THEN Some(entry.cls)
              ELSE Pick(Tail(entries), class_name)
         ELSE Some(entry.cls)

\* Loader.get(type_name, class_name)
get(L, type_name, class_name) ==
    LET all == get_all(L, type_name)
        cls == Pick(all.list, class_name)
    IN  IF all.ret # "list" THEN [L |-> all.L, ret |-> all.ret, cls |-> None]
        ELSE IF cls # None THEN [L |-> all.L, ret |-> "cls", cls |-> cls]
        ELSE [L |-> all.L, ret |-> "RuntimeError: no acceptable implementation",
              cls |-> None]

\* Loader.get_name(cls)
get_name(L, cls) == L.name_resolution_cache[cls]

\* Loader.reset
reset(L) ==
    [L EXCEPT !.known_types = [ty \in TypeNames |-> None],
              !.name_resolution_cache = [c \in Classes |-> None],
              !.runs = [ty \in TypeNames |-> 0],
              !.origin = [ty \in TypeNames |-> "none"]]

\* Loader.set_all(type_name, implementations)
RECURSIVE CacheAll(_, _, _)
CacheAll(cache, type_name, items) ==
    IF items = <<>> THEN cache
    ELSE CacheAll([cache EXCEPT ![Head(items).cls] = Some(<<type_name, Head(items).name>>)],
                  type_name, Tail(items))
set_all(L, type_name, implementations) ==
    [L EXCEPT !.known_types[type_name] = Some(implementations),
              !.name_resolution_cache = CacheAll(@, type_name, implementations),
              !.origin[type_name] = "set_all"]

(***************************************************************************)
(* The state machine.                                                      *)
(***************************************************************************)
\* No step was taken yet.
NoEvent ==
    [ t |-> 0, pc |-> "idle", got |-> FALSE, o |-> Data,
      ret |-> "none", raised |-> 0, frame |-> IdleTask,
      wrapped |-> "none" ]   \* the operation a blocking wrapper was called for

Init ==
    /\ session \in {NewSession} \cup {load(d) : d \in Snapshots}
    /\ tasks = [t \in Tasks |-> IdleTask]
    /\ ev = NoEvent
    /\ ncalls = 0
    /\ nfail = 0
    /\ loader = NewLoader

M == [s |-> session, ts |-> tasks, out |-> NoOutcome]

\* Task t ran from position tasks[t].pc to its next suspension, which left
\* the machine in m.  got: it resumed with the answer o to its call.
Step(t, got, o, m) ==
    /\ session' = m.s
    /\ tasks' = m.ts
    /\ ev' = [ t |-> t, pc |-> tasks[t].pc, got |-> got, o |-> o,
               ret |-> m.out.ret, raised |-> m.out.raised,
               frame |-> IF m.out.ret = "none" THEN m.ts[t] ELSE m.out.frame,
               wrapped |-> "none" ]
    /\ UNCHANGED loader

\* Task t starts coroutine op on the session.
Started(t, op, ncc) ==
    [M EXCEPT !.ts = [u \in Tasks |->
        IF u = t
        THEN [NewTask(op, ncc) EXCEPT
                !.solo = \A w \in Tasks \ {t} : tasks[w].pc = "idle"]
        ELSE [tasks[u] EXCEPT !.solo = (tasks[u].pc = "idle")]]]

\* Idle tasks are interchangeable: a coroutine starts on the first of them.
CanStart(t) ==
    /\ tasks[t].pc = "idle"
    /\ \/ ncalls < MaxCalls
       \/ /\ ncalls < MaxCalls + MaxPreempts
          /\ \E u \in Tasks : tasks[u].pc = "req_woken"
    /\ \A u \in Tasks : u < t => tasks[u].pc # "idle"

Call(t, m) ==
    /\ Step(t, FALSE, Data, m)
    /\ ncalls' = ncalls + 1
    /\ UNCHANGED nfail

\* The endpoint of the call a coroutine suspended at pc has in flight.
EndpointAt(pc) ==
    CASE pc = "req_net" -> "request"
      [] pc = "rf_net" -> "/auth/refresh"
      [] pc = "lo_net" -> "DELETE /auth"
      [] pc = "info_net" -> "/auth/info"
      [] pc = "auth_net" -> "/auth"
      [] pc = "tfa_net" -> "/auth/2fa"
      [] pc = "lock_net" -> "/users/lock"
      [] OTHER -> "/auth/scopes"

\* The answers the call task t has in flight may get.
Answers(t) ==
    {o \in TransportAnswers(EndpointAt(tasks[t].pc), tasks[t].sentAuth) :
        o.ok \/ nfail < MaxFailures}

\* Task t resumes with answer o, which leaves the machine in m.
Answer(t, o, m) ==
    /\ Step(t, TRUE, o, m)
    /\ nfail' = IF o.ok THEN nfail ELSE nfail + 1
    /\ UNCHANGED ncalls

Call_api_request(t, ncc) ==
    /\ CanStart(t)
    /\ Call(t, ApiLoop([Started(t, "api_request", ncc) EXCEPT
                          !.ts[t].attempts = ApiAttempts], t))

Call_authenticate(t, ncc) ==
    /\ CanStart(t)
    /\ Call(t, Authenticate(Started(t, "authenticate", ncc), t))

Call_provide_2fa(t, ncc) ==
    /\ CanStart(t)
    /\ Call(t, Provide2fa(Started(t, "provide_2fa", ncc), t))

Call_refresh(t, only, ncc) ==
    /\ CanStart(t)
    /\ Call(t, Refresh(Started(t, "refresh", ncc), t, only))

Call_logout(t, ncc) ==
    /\ CanStart(t)
    /\ LET lo == Logout(Started(t, "logout", ncc), t, ncc) IN
       Call(t, IF lo.done THEN Finish(lo.m, t, "True", 0) ELSE lo.m)

Call_lock(t, ncc) ==
    /\ CanStart(t)
    /\ Call(t, Lock(Started(t, "lock", ncc), t))

(***************************************************************************)
(* sync_wrapper: the blocking variants of the operations.                  *)
(***************************************************************************)
Operations ==
    {"api_request", "authenticate", "provide_2fa", "logout", "refresh", "lock"}

\* Mutant: a nested call falls back to running the operation.
sync_wrapper_Fallback(running) == "run"

\* wrapped_f up to its decision: asyncio.get_running_loop() succeeds exactly
\* when the caller is inside a running event loop, and then it raises.
sync_wrapper(running) == IF running THEN "RuntimeError" ELSE "run"

\* loop.run_until_complete(f(*a, **kw)): the wrapped coroutine starts.
Begin(t, op) ==
    LET m == Started(t, op, FALSE) IN
    CASE op = "api_request" -> ApiLoop([m EXCEPT !.ts[t].attempts = ApiAttempts], t)
      [] op = "authenticate" -> Authenticate(m, t)
      [] op = "provide_2fa" -> Provide2fa(m, t)
      [] op = "refresh" -> Refresh(m, t, None)
      [] op = "lock" -> Lock(m, t)
      [] OTHER -> LET lo == Logout(m, t, FALSE) IN
                  IF lo.done THEN Finish(lo.m, t, "True", 0) ELSE lo.m

\* The blocking variant of op is called, from inside a running event loop
\* (running) or not.
Call_sync_wrapped(t, op, running) ==
    /\ CanStart(t)
    /\ LET m == IF sync_wrapper(running) = "RuntimeError"
                THEN [M EXCEPT !.out = [ret |-> "RuntimeError", raised |-> 0,
                                        frame |-> IdleTask]]
                ELSE Begin(t, op)
       IN  /\ session' = m.s
           /\ tasks' = m.ts
           /\ ev' = [ t |-> t, pc |-> "idle", got |-> FALSE, o |-> Data,
                      ret |-> m.out.ret, raised |-> m.out.raised,
                      frame |-> IF m.out.ret = "none" THEN m.ts[t] ELSE m.out.frame,
                      wrapped |-> IF running THEN "nested" ELSE op ]
    /\ UNCHANGED loader
    /\ ncalls' = ncalls + 1
    /\ UNCHANGED nfail

\* __setstate__(data): a snapshot is restored into a session on which no
\* coroutine is running (load() and pickle restore into a fresh object).
Restore(data) ==
    /\ ncalls < MaxCalls
    /\ \A t \in Tasks : tasks[t].pc = "idle"
    /\ session' = setstate(session, data)
    /\ ev' = [NoEvent EXCEPT !.pc = "restore"]
    /\ ncalls' = ncalls + 1
    /\ UNCHANGED <<tasks, nfail, loader>>

\* The values assigned to session.environment: None, an Environment, or
\* an object that is not one.
AssignedEnvironments ==
    {None, Some("NotAnEnvironment")} \cup {Some(cls) : cls \in EnvClasses}

\* session.environment = newvalue
Assign_environment(newvalue) ==
    /\ ncalls < MaxCalls
    /\ \A t \in Tasks : tasks[t].pc = "idle"
    /\ LET r == environment_set(session, newvalue) IN
       /\ session' = r.s
       /\ ev' = [NoEvent EXCEPT !.pc = "environment", !.ret = r.raised]
    /\ ncalls' = ncalls + 1
    /\ UNCHANGED <<tasks, nfail, loader>>

\* The gate opened while t waited on it: wait() returns and the call is sent.
GateResume(t) ==
    /\ tasks[t].pc = "req_woken"
    /\ Step(t, FALSE, Data, Send(M, t, "request", "req_net"))
    /\ UNCHANGED <<ncalls, nfail>>

\* asyncio.sleep() of __sleep_for_exception is over.
SleepResume(t) ==
    /\ tasks[t].pc \in {"req_sleep", "rf_sleep"}
    /\ Step(t, FALSE, Data,
            IF tasks[t].pc = "req_sleep" THEN ApiLoop(M, t) ELSE RefreshLoop(M, t))
    /\ UNCHANGED <<ncalls, nfail>>

ApiResponse(t) ==
    /\ tasks[t].pc = "req_net"
    /\ \E o \in Answers(t) : Answer(t, o, ApiResume(M, t, o))

RefreshResponse(t) ==
    /\ tasks[t].pc = "rf_net"
    /\ \E o \in Answers(t) :
          Answer(t, o, RefreshResume(M, t, o, IssuedGen(session)))

LogoutResponse(t) ==
    /\ tasks[t].pc = "lo_net"
    /\ \E o \in Answers(t) :
          Answer(t, o, IF tasks[t].op = "authenticate"
                       THEN AuthAfterLogout(M, t, o) ELSE LogoutTop(M, t, o))

AuthInfoResponse(t) ==
    /\ tasks[t].pc = "info_net"
    /\ \E o \in Answers(t) : Answer(t, o, AuthAfterInfo(M, t, o))

AuthResponse(t) ==
    /\ tasks[t].pc = "auth_net"
    /\ \E o \in Answers(t), u \in Usernames :
          Answer(t, o, AuthAfterProof(M, t, o, IssuedGen(session), u))

Provide2faResponse(t) ==
    /\ tasks[t].pc = "tfa_net"
    /\ \E o \in Answers(t) : Answer(t, o, Provide2faResume(M, t, o))

LockResponse(t) ==
    /\ tasks[t].pc \in {"lock_net", "scopes_net"}
    /\ \E o \in Answers(t) :
          Answer(t, o, IF tasks[t].pc = "lock_net"
                       THEN LockResume(M, t, o) ELSE LockScopesResume(M, t, o))

Next ==
    \/ \E t \in Tasks, ncc \in BOOLEAN : Call_api_request(t, ncc)
    \/ \E t \in Tasks : Call_authenticate(t, FALSE)
    \/ \E t \in Tasks : Call_provide_2fa(t, FALSE)
    \/ \E t \in Tasks :
          \E only \in {None} \cup {Some(r) : r \in 0..session.refresh_revision} :
             Call_refresh(t, only, FALSE)
    \/ \E t \in Tasks : Call_logout(t, FALSE)
    \/ \E t \in Tasks : Call_lock(t, FALSE)
    \/ \E t \in Tasks, op \in Operations, running \in BOOLEAN :
          Call_sync_wrapped(t, op, running)
    \/ \E data \in Snapshots : Restore(data)
    \/ \E newvalue \in AssignedEnvironments : Assign_environment(newvalue)
    \/ \E t \in Tasks : GateResume(t)
    \/ \E t \in Tasks : SleepResume(t)
    \/ \E t \in Tasks : ApiResponse(t)
    \/ \E t \in Tasks : RefreshResponse(t)
    \/ \E t \in Tasks : LogoutResponse(t)
    \/ \E t \in Tasks : AuthInfoResponse(t)
    \/ \E t \in Tasks : AuthResponse(t)
    \/ \E t \in Tasks : Provide2faResponse(t)
    \/ \E t \in Tasks : LockResponse(t)

Spec == Init /\ [][Next]_vars

(***************************************************************************)
(* The Loader as a state machine: its calls, one at a time.                *)
(***************************************************************************)
\* longest PROTON_LOADER_OVERRIDES, in tokens
MaxTokens == 2

\* The tokens PROTON_LOADER_OVERRIDES is made of.
OverrideTokens ==
    { [type |-> "transport", minus |-> FALSE, name |-> "b"],
      [type |-> "transport", minus |-> TRUE, name |-> "a"],
      [type |-> "transport", minus |-> FALSE, name |-> UnknownName] }

\* The dicts handed to set_all.
ImplementationMaps ==
    { << [name |-> "c", cls |-> "C"], [name |-> "a", cls |-> "B"],
         [name |-> "b", cls |-> "A"] >>,
      << [name |-> "b", cls |-> "D"], [name |-> "a", cls |-> "A"] >> }

\* The class names get is asked for.
AskedNames == {None} \cup {Some(n) : n \in {"a", UnknownName}}

\* The classes get_name is asked about.
AskedClasses == {"A", "D"}

LoaderInit ==
    /\ session = NewSession
    /\ tasks = [t \in Tasks |-> IdleTask]
    /\ ev = NoEvent
    /\ ncalls = 0
    /\ nfail = 0
    /\ loader \in {[NewLoader EXCEPT !.installation = i] : i \in Installations}

\* A call on the Loader left it in state L and gave res.
LoaderStep(L, res) ==
    /\ loader' = [L EXCEPT !.res = res]
    /\ UNCHANGED <<session, tasks, ev, ncalls, nfail>>

Loader_get_all(type_name) ==
    /\ type_name \in TypeNames
    /\ LET r == get_all(loader, type_name) IN
       LoaderStep(r.L, [NoResult EXCEPT !.op = "get_all", !.type_name = type_name,
                                        !.ret = r.ret, !.list = r.list])

Loader_get(type_name, class_name) ==
    /\ type_name \in TypeNames
    /\ LET r == get(loader, type_name, class_name) IN
       LoaderStep(r.L, [NoResult EXCEPT !.op = "get", !.type_name = type_name,
                                        !.class_name = class_name,
                                        !.ret = r.ret, !.cls = r.cls])

Loader_get_name(cls) ==
    /\ cls \in AskedClasses
    /\ LoaderStep(loader, [NoResult EXCEPT !.op = "get_name",
                                           !.class_name = Some(cls), !.ret = "name",
                                           !.cls = get_name(loader, cls)])

\* A thread runs get_all(type_name) up to the end of the locked section
\* and is preempted there, if the section did not raise.
Loader_get_all_preempted(type_name) ==
    /\ type_name \in TypeNames
    /\ loader.pending = None
    /\ LET found == Discovery(loader, type_name) IN
       IF found.raised # "none"
       THEN LoaderStep(found.L,
                [NoResult EXCEPT !.op = "get_all", !.type_name = type_name,
                                 !.ret = found.raised])
       ELSE LoaderStep([found.L EXCEPT !.pending = Some(type_name)],
                [NoResult EXCEPT !.op = "locked", !.type_name = type_name])

\* The preempted thread runs the rest of its get_all.
Loader_get_all_resumed ==
    /\ loader.pending # None
    /\ LET type_name == loader.pending.v
           r == Filter(loader, type_name) IN
       LoaderStep([loader EXCEPT !.pending = None],
                  [NoResult EXCEPT !.op = "get_all", !.type_name = type_name,
                                   !.ret = r.ret, !.list = r.list])

Loader_reset ==
    /\ reset(loader) # loader
    /\ LoaderStep(reset(loader), [NoResult EXCEPT !.op = "reset"])

Loader_set_all(type_name, implementations) ==
    /\ type_name \in TypeNames
    /\ LoaderStep(set_all(loader, type_name, implementations),
                  [NoResult EXCEPT !.op = "set_all", !.type_name = type_name])

\* The process changes os.environ['PROTON_LOADER_OVERRIDES']: it adds a
\* token to the variable, or unsets it.
SetOverrides(setting) ==
    /\ Len(setting) <= MaxTokens
    /\ setting # loader.overrides
    /\ LoaderStep([loader EXCEPT !.overrides = setting],
                  [NoResult EXCEPT !.op = "environ"])

LoaderNext ==
    \/ \E ty \in TypeNames : Loader_get_all(ty)
    \/ \E ty \in TypeNames : Loader_get_all_preempted(ty)
    \/ Loader_get_all_resumed
    \/ \E ty \in TypeNames, cn \in AskedNames : Loader_get(ty, cn)
    \/ \E cls \in AskedClasses : Loader_get_name(cls)
    \/ Loader_reset
    \/ \E ty \in TypeNames, impl \in ImplementationMaps : Loader_set_all(ty, impl)
    \/ \E token \in OverrideTokens : SetOverrides(Append(loader.overrides, token))
    \/ SetOverrides(<<>>)

LoaderSpec == LoaderInit /\ [][LoaderNext]_vars

(***************************************************************************)
(* Vocabulary of the properties.                                           *)
(***************************************************************************)
\* How many times endpoint ep occurs in a log of calls.
Count(ep, log) == Cardinality({i \in DOMAIN log : log[i] = ep})

\* UID, AccessToken, RefreshToken and Scopes are all absent.
AllAbsent(s) ==
    s.UID = None /\ s.AccessToken = None /\ s.RefreshToken = None /\ s.Scopes = None

Credentials(s) == <<s.UID, s.AccessToken, s.RefreshToken, s.Scopes>>

\* The last step resumed a coroutine at pc with a failed call of status http.
FailedWith(e, pc, http) == e.got /\ e.pc = pc /\ ~e.o.ok /\ e.o.http = http

\* In the step at hand, task t entered async_refresh.
EntersRefresh(t) ==
    /\ ev'.t = t
    /\ ev'.frame.nrf = (IF tasks[t].pc = "idle" THEN 0 ELSE tasks[t].nrf) + 1

\* The log of calls of task t before the step at hand.
LogBefore(t) == IF tasks[t].pc = "idle" THEN <<>> ELSE tasks[t].sentLog

(***************************************************************************)
(* C1. In every reachable state, UID is absent iff AccessToken,            *)
(* RefreshToken and Scopes are all absent.                                 *)
(***************************************************************************)
C1_CredentialsAtomic ==
    (session.UID = None) <=>
        (session.AccessToken = None /\ session.RefreshToken = None
         /\ session.Scopes = None)

(***************************************************************************)
(* C2. Whenever a mutating operation has closed the gate and has not yet   *)
(* completed, the gate is closed.                                          *)
(***************************************************************************)
C2_GateClosedWhileMutating ==
    (\E t \in Tasks : tasks[t].holds) => session.can_run_requests = "clear"

(***************************************************************************)
(* C3. async_refresh entered with a non-null observed revision that the    *)
(* live revision has passed is a no-op returning True: no refresh call,    *)
(* no increment of the revision, tokens and scopes unchanged.              *)
(***************************************************************************)
C3_StaleRefreshIsNoop ==
    [][\A t \in Tasks :
          (/\ EntersRefresh(t)
           /\ ev'.frame.only # None
           /\ session.refresh_revision > ev'.frame.only.v)
          => /\ ev'.frame.rfRet = "True"
             /\ session'.refresh_revision = session.refresh_revision
             /\ Count("/auth/refresh", ev'.frame.sentLog)
                   = Count("/auth/refresh", LogBefore(t))
             /\ Credentials(session') = Credentials(session)]_vars

(***************************************************************************)
(* C4. In async_api_request every attempt that fails with 401 invokes      *)
(* async_refresh exactly once, bound to the revision read before that      *)
(* attempt; async_refresh is invoked for no other reason; the call is      *)
(* sent again after a 401 only when that refresh returned True; and the    *)
(* calls sent, re-sent ones included, never exceed 3.                      *)
(***************************************************************************)
\* Task t runs async_api_request and this step is one of it.
ApiStep(t) == tasks[t].op = "api_request" /\ ev'.t = t

\* The original call is handed to the Transport, or queued on the gate.
Resent(t) ==
    \/ Count("request", ev'.frame.sentLog) > Count("request", tasks[t].sentLog)
    \/ (ev'.ret = "none" /\ ev'.frame.pc = "req_wait")

C4_RefreshOncePer401 ==
    [][\A t \in Tasks : ApiStep(t) =>
          /\ (tasks[t].pc = "req_net" /\ FailedWith(ev', "req_net", 401))
                => /\ ev'.frame.nrf = tasks[t].nrf + 1
                   /\ ev'.frame.only = Some(tasks[t].rv0)
          /\ (ev'.frame.nrf # tasks[t].nrf)
                => (tasks[t].pc = "req_net" /\ FailedWith(ev', "req_net", 401))
          /\ ((tasks[t].pc \in {"rf_net", "rf_sleep"} \/ FailedWith(ev', "req_net", 401))
              /\ Resent(t))
                => ev'.frame.rfRet = "True"
          /\ Count("request", ev'.frame.sentLog) <= ApiAttempts]_vars

\* An attempt failed with 401, the refresh returned True, the call was re-sent.
C4_Witness ==
    \E t \in Tasks :
        /\ tasks[t].op = "api_request" /\ tasks[t].pc = "req_net"
        /\ tasks[t].nrf = 1 /\ tasks[t].rfRet = "True"
        /\ tasks[t].sentLog = <<"request", "/auth/refresh", "request">>

(***************************************************************************)
(* C5. When the refresh that a 401 of async_api_request triggered is       *)
(* answered 400 or 422, the request ends in that step with                 *)
(* ProtonAPIAuthenticationNeeded, the original call is not sent again, and *)
(* UID, AccessToken, RefreshToken and Scopes are all absent.               *)
(***************************************************************************)
TerminalRefreshOfRequest(e) ==
    /\ e.frame.op = "api_request"
    /\ (FailedWith(e, "rf_net", 400) \/ FailedWith(e, "rf_net", 422))

C5_TerminalRefreshFailure ==
    TerminalRefreshOfRequest(ev) =>
        /\ ev.ret = "ProtonAPIAuthenticationNeeded"
        /\ tasks[ev.t].pc = "idle"
        /\ ev.frame.sentLog[Len(ev.frame.sentLog)] = "/auth/refresh"
        /\ AllAbsent(session)

\* The refresh of a session that held credentials was answered 422.
C5_Witness ==
    /\ TerminalRefreshOfRequest(ev) /\ ev.o.http = 422
    /\ ev.frame.sentAuth
    /\ ev.ret = "ProtonAPIAuthenticationNeeded"

(***************************************************************************)
(* C6. async_api_request makes at most 3 Transport attempts and never      *)
(* completes normally without response data.                               *)
(***************************************************************************)
C6_NeverReturnsEmpty ==
    (ev.frame.op = "api_request" /\ ev.ret # "none") =>
        /\ Count("request", ev.frame.sentLog) <= ApiAttempts
        /\ ev.ret # "None"

(***************************************************************************)
(* C7. An attempt of async_api_request that fails with 403 ends the        *)
(* request in that step, with no further call and no refresh:              *)
(* ProtonAPI2FANeeded when the session needs a second factor,              *)
(* ProtonAPIMissingScopeError otherwise.  A failure whose status is none   *)
(* of 401, 403, 408, 429, 502, 503 is re-raised as it is, in that step.    *)
(***************************************************************************)
Retried == {401, 408, 429, 502, 503}

\* The step ended the request without touching the session or the Transport.
EndsAtOnce(t) ==
    /\ ev'.ret # "none"
    /\ tasks'[t].pc = "idle"
    /\ ev'.frame.sentLog = tasks[t].sentLog
    /\ ev'.frame.nrf = tasks[t].nrf
    /\ session' = session

C7_ImmediateFailures ==
    [][\A t \in Tasks :
          (ApiStep(t) /\ tasks[t].pc = "req_net" /\ ev'.got /\ ~ev'.o.ok) =>
             /\ ev'.o.http = 403 =>
                  /\ EndsAtOnce(t)
                  /\ ev'.ret = IF needs_twofa(session) THEN "ProtonAPI2FANeeded"
                                ELSE "ProtonAPIMissingScopeError"
             /\ ev'.o.http \notin (Retried \cup {403}) =>
                  /\ EndsAtOnce(t)
                  /\ ev'.ret = "ProtonAPIError"
                  /\ ev'.raised = ev'.o.http]_vars

\* Both outcomes of a 403, and a propagated failure on a second attempt.
C7_Witness ==
    /\ FailedWith(ev, "req_net", 403)
    /\ ev.ret = "ProtonAPI2FANeeded"
    /\ Len(ev.frame.sentLog) = 2

(***************************************************************************)
(* C8. Every execution of async_authenticate that closes the gate re-opens *)
(* it and notifies the observers of the release before it completes.       *)
(***************************************************************************)
ReleaseNotified(log) ==
    \A i \in DOMAIN Observers :
        \E j \in DOMAIN log : log[j] = [kind |-> "release", observer |-> Observers[i]]

C8_AuthenticateReleasesGate ==
    (ev.frame.op = "authenticate" /\ ev.ret # "none" /\ ~ev.frame.ncc) =>
        /\ ~ev.frame.holds
        /\ ReleaseNotified(ev.frame.obs)

(***************************************************************************)
(* C9. When the API rejects the login as invalid credentials (8002),       *)
(* async_authenticate returns False and leaves the session with UID,       *)
(* AccessToken, RefreshToken and Scopes all absent, whatever session it    *)
(* held before.  (Stated for an authenticate that ran alone.)              *)
(***************************************************************************)
LoginRejected(e) ==
    /\ e.frame.op = "authenticate" /\ e.got /\ e.pc = "auth_net"
    /\ ~e.o.ok /\ e.o.body = 8002

C9_RejectedLoginClears ==
    (LoginRejected(ev) /\ ev.frame.solo) =>
        /\ ev.ret = "False"
        /\ AllAbsent(session)

(***************************************************************************)
(* C10. A modulus that does not verify, a challenge the SRP engine         *)
(* rejects, or a server proof that does not verify makes                   *)
(* async_authenticate raise ProtonCryptoError in that step, with no call   *)
(* sent again and no credential field written; after a modulus or          *)
(* challenge failure the login proof ("/auth") is never sent.              *)
(***************************************************************************)
BadModulusOrChallenge(e) ==
    /\ e.got /\ e.pc = "info_net" /\ e.o.ok
    /\ (~e.o.valid \/ ~e.o.fingerprint \/ ~e.o.challenge)

BadServerProof(e) == e.got /\ e.pc = "auth_net" /\ e.o.ok /\ e.o.proof = "bad"

C10_CryptoErrorsAreFatal ==
    [][\A t \in Tasks :
          (ev'.t = t /\ (BadModulusOrChallenge(ev') \/ BadServerProof(ev'))) =>
             /\ ev'.ret = "ProtonCryptoError"
             /\ tasks'[t].pc = "idle"
             /\ ev'.frame.sentLog = tasks[t].sentLog
             /\ \A ep \in {"DELETE /auth", "/auth/info", "/auth"} :
                   Count(ep, ev'.frame.sentLog) <= 1
             /\ BadModulusOrChallenge(ev') => Count("/auth", ev'.frame.sentLog) = 0
             /\ Credentials(session') = Credentials(session)
             /\ session'.AccountName = session.AccountName
             /\ session'.twoFA = session.twoFA]_vars

\* The signature verified but under another key's fingerprint.
C10_Witness ==
    /\ BadModulusOrChallenge(ev) /\ ev.o.valid /\ ~ev.o.fingerprint
    /\ ev.ret = "ProtonCryptoError"
    /\ Count("DELETE /auth", ev.frame.sentLog) = 1

(***************************************************************************)
(* C11. async_logout on an authenticated session leaves UID, AccessToken,  *)
(* RefreshToken and Scopes absent, and raises nothing, both when the       *)
(* session-delete call succeeds and when it fails with 401; when the call  *)
(* fails with another status that failure is raised to the caller.         *)
(***************************************************************************)
\* The last step gave a top-level async_logout the answer to its call.
LogoutAnswered(e) == e.frame.op = "logout" /\ e.got /\ e.pc = "lo_net"

C11_LogoutClears ==
    LogoutAnswered(ev) =>
        IF ev.o.ok \/ ev.o.http = 401
        THEN AllAbsent(session) /\ ev.raised = 0 /\ ev.ret # "ProtonAPIError"
        ELSE ev.ret = "ProtonAPIError" /\ ev.raised = ev.o.http

(***************************************************************************)
(* C12. async_logout on an unauthenticated session returns True at once:   *)
(* no Transport call, the gate is not closed, no observer is notified and  *)
(* no field of the session changes.                                        *)
(***************************************************************************)
\* In the step at hand task t starts async_logout.
StartsLogout(t) ==
    /\ tasks[t].pc = "idle"
    /\ ev'.t = t /\ ev'.pc = "idle" /\ ev'.frame.op = "logout"

C12_LogoutUnauthenticatedNoop ==
    [][\A t \in Tasks :
          (StartsLogout(t) /\ session.UID = None) =>
             /\ ev'.ret = "True"
             /\ ev'.frame.sentLog = <<>>
             /\ ev'.frame.obs = <<>>
             /\ ~ev'.frame.holds
             /\ tasks'[t] = IdleTask
             /\ session' = session]_vars

\* A logout of a session that another logout has just cleared.
C12_Witness ==
    /\ ev.frame.op = "logout" /\ ev.pc = "idle" /\ ev.ret = "True"
    /\ session.UID = None
    /\ ncalls = 2

(***************************************************************************)
(* C13. In async_refresh a refresh call answered 400 or 422 is terminal:   *)
(* no further refresh call is made, UID, AccessToken, RefreshToken and     *)
(* Scopes are cleared and async_refresh returns False.  A refresh call     *)
(* that succeeds replaces AccessToken, RefreshToken and Scopes by those of *)
(* the answer and leaves UID and AccountName as they were.                 *)
(***************************************************************************)
\* In the step at hand task t resumes async_refresh with the answer to its call.
RefreshAnswered(t) == tasks[t].pc = "rf_net" /\ ev'.t = t /\ ev'.got

C13_RefreshOutcomes ==
    [][\A t \in Tasks : RefreshAnswered(t) =>
          /\ (~ev'.o.ok /\ ev'.o.http \in {400, 422}) =>
                /\ AllAbsent(session')
                /\ ev'.frame.rfRet = "False"
                /\ tasks[t].op = "refresh" =>
                      (ev'.ret = "False" /\ ev'.raised = 0)
                /\ Count("/auth/refresh", ev'.frame.sentLog)
                      = Count("/auth/refresh", tasks[t].sentLog)
          /\ ev'.o.ok =>
                /\ session'.AccessToken = AccessTok(IssuedGen(session))
                /\ session'.RefreshToken = RefreshTok(IssuedGen(session))
                /\ session'.AccessToken # session.AccessToken
                /\ session'.RefreshToken # session.RefreshToken
                /\ session'.Scopes = Some(ev'.o.scopes)
                /\ session'.UID = session.UID
                /\ session'.AccountName = session.AccountName
                /\ ev'.frame.rfRet = "True"]_vars

\* The second refresh call of a refresh() was answered 400.
C13_Witness ==
    /\ ev.frame.op = "refresh" /\ FailedWith(ev, "rf_net", 400)
    /\ ev.frame.sentLog = <<"/auth/refresh", "/auth/refresh">>
    /\ ev.ret = "False"
    /\ AllAbsent(session)

(***************************************************************************)
(* C14. async_refresh makes at most 3 refresh calls and, whatever the      *)
(* failures of those calls, ends without raising and returns True or       *)
(* False; three retried failures in a row (409, 429, 503) yield False.     *)
(***************************************************************************)
C14_RefreshReturnsBoolean ==
    (ev.frame.op = "refresh" /\ ev.ret # "none") =>
        /\ Count("/auth/refresh", ev.frame.sentLog) <= RefreshAttempts
        /\ ev.raised = 0
        /\ ev.ret \in {"True", "False"}
        /\ (Count("/auth/refresh", ev.frame.sentLog) = RefreshAttempts /\ ~ev.o.ok
            /\ ev.o.http \in {409, 429, 503})
              => ev.ret = "False"

(***************************************************************************)
(* C15. async_provide_2fa writes Scopes and the pending second factor      *)
(* (self.__2FA) only when the answer carries the success code 1000, and    *)
(* then returns True; for any other answer it returns False, raises        *)
(* nothing and leaves both as they were.                                   *)
(***************************************************************************)
C15_Provide2faFrame ==
    [][\A t \in Tasks :
          (tasks[t].pc = "tfa_net" /\ ev'.t = t /\ ev'.got) =>
             IF ev'.o.ok /\ ev'.o.code = 1000
             THEN /\ ev'.ret = "True"
                  /\ session'.Scopes = Some(ev'.o.scopes)
                  /\ session'.twoFA = None
             ELSE /\ ev'.ret = "False" /\ ev'.raised = 0
                  /\ session'.Scopes = session.Scopes
                  /\ session'.twoFA = session.twoFA]_vars

(***************************************************************************)
(* C16. dump() is the empty snapshot exactly when the session is           *)
(* unauthenticated (a new session is); for an authenticated session,       *)
(* load(dump()) has the same AccountName, UID, AccessToken, RefreshToken,  *)
(* Scopes and environment name, and dump(load(dump(s))) = dump(s).         *)
(***************************************************************************)
\* The name of the environment of s, as the environment property gives it.
EnvNameOf(s) == EnvironmentName(environment_get(s).environment.v)

C17_NestedBlockingCallFails ==
    [][\A t \in Tasks :
          (ev'.t = t /\ ev'.wrapped = "nested" /\ ev' # ev) =>
             /\ ev'.ret = "RuntimeError"
             /\ ev'.frame = IdleTask
             /\ ev'.frame.sentLog = <<>> /\ ev'.frame.obs = <<>>
             /\ tasks' = tasks
             /\ session' = session]_vars

\* A blocking call was refused while a coroutine of the session held the gate.
C17_Witness ==
    /\ ev.wrapped = "nested" /\ ev.ret = "RuntimeError"
    /\ \E t \in Tasks : tasks[t].holds /\ tasks[t].pc = "auth_net"
    /\ session.can_run_requests = "clear"

(***************************************************************************)
(* C18. An operation that closes the gate notifies every observer once     *)
(* with acquire, in registration order, and, when it opens the gate, once  *)
(* with release, in the reverse order; when the operation has completed    *)
(* every observer has got as many releases as acquires.                    *)
(***************************************************************************)
Acquired == Notify("acquire", Observers, 1)
Released == Notify("release", reversed(Observers), 1)

C18_ObserversPaired ==
    /\ \A t \in Tasks :
          (tasks[t].pc # "idle" /\ tasks[t].obs # <<>>) =>
              tasks[t].obs \in {Acquired, Acquired \o Released}
    /\ (ev.ret # "none" /\ ev.frame.obs # <<>>) =>
          ev.frame.obs = Acquired \o Released

(***************************************************************************)
(* C19. The list get_all returns holds every known entry of the type once: *)
(* first those with a priority, strictly descending by (priority, name),   *)
(* then those with priority None.                                          *)
(***************************************************************************)
\* The last call on the Loader was get_all and it returned a list.
GetAllReturned == loader.res.op = "get_all" /\ loader.res.ret = "list"

\* The dict of the type the last call was about.
KnownDict == loader.known_types[loader.res.type_name].v

C19_GetAllOrder ==
    GetAllReturned =>
        LET l == loader.res.list IN
        /\ {l[i].class_name : i \in DOMAIN l}
              = {KnownDict[i].name : i \in DOMAIN KnownDict}
        /\ \A i, j \in DOMAIN l :
              i < j =>
                /\ l[i].class_name # l[j].class_name
                /\ l[i].priority = None => l[j].priority = None
                /\ (l[i].priority # None /\ l[j].priority # None) =>
                      \/ l[i].priority.v > l[j].priority.v
                      \/ /\ l[i].priority.v = l[j].priority.v
                         /\ NameRank(l[i].class_name) > NameRank(l[j].class_name)

\* Two entries of equal priority were put in descending order of name, in
\* front of an entry without priority that came first in the dict.
C19_Witness ==
    /\ GetAllReturned
    /\ Len(loader.res.list) = 3
    /\ KnownDict[1].name = "c" /\ KnownDict[2].name = "a"
    /\ loader.res.list[1].class_name = "b" /\ loader.res.list[2].class_name = "a"
    /\ loader.res.list[1].priority = loader.res.list[2].priority
    /\ loader.res.list[3].priority = None

(***************************************************************************)
(* C20. A name the overrides filter out of the candidates of a type (an    *)
(* excluded name, or a name other than the forced one) is not in the list  *)
(* get_all returns, and get with that name given fails as not found.       *)
(***************************************************************************)
\* Name k is filtered out for the type of the last call.
FilteredOut(k) ==
    LET ov == OverridesFor(loader.overrides, loader.res.type_name)
        force_class == ForceClass(ov)
    IN  \/ force_class = {} /\ Excluded(ov, k)
        \/ \E f \in force_class :
              force_class = {f} /\ HasKey(KnownDict, f) /\ k # f

C20_FilteredNamesUnreachable ==
    /\ GetAllReturned =>
          \A i \in DOMAIN loader.res.list :
              ~FilteredOut(loader.res.list[i].class_name)
    /\ (/\ loader.res.op = "get" /\ loader.res.class_name # None
        /\ loader.res.ret \in {"cls", "RuntimeError: no acceptable implementation"}
        /\ FilteredOut(loader.res.class_name.v))
          => loader.res.ret = "RuntimeError: no acceptable implementation"

(***************************************************************************)
(* C21. get(type_name) without a class name returns, of the candidates     *)
(* the overrides leave (the forced name alone, or every name not           *)
(* excluded) that have a priority and no failing _validate, the one that   *)
(* is highest by (priority, name); when there is none it raises "couldn't  *)
(* find an acceptable implementation".                                     *)
(***************************************************************************)
\* The last call was get without a class name, and get_all gave it a list.
GetDefaultEnded ==
    /\ loader.res.op = "get" /\ loader.res.class_name = None
    /\ loader.res.ret \in {"cls", "RuntimeError: no acceptable implementation"}

\* Item i of the known dict may be selected.
Qualifies(i) ==
    LET ov == OverridesFor(loader.overrides, loader.res.type_name)
        k == KnownDict[i].name
        c == KnownDict[i].cls
    IN  /\ IF ForceClass(ov) = {} THEN ~Excluded(ov, k) ELSE ForceClass(ov) = {k}
        /\ get_priority(c) # None
        /\ has_validate(c) => validate(c)

\* Item i comes before item j in descending (priority, name) order.
Before(i, j) ==
    LET pi == get_priority(KnownDict[i].cls).v
        pj == get_priority(KnownDict[j].cls).v
    IN  \/ pi > pj
        \/ pi = pj /\ NameRank(KnownDict[i].name) > NameRank(KnownDict[j].name)

ForcedUnknown ==
    /\ loader.res.op = "get_all"
    /\ loader.known_types[loader.res.type_name] # None
    /\ LET force_class == ForceClass(OverridesFor(loader.overrides,
                                                  loader.res.type_name))
       IN  \E f \in force_class : force_class = {f} /\ ~HasKey(KnownDict, f)

C22_ForcedUnknownFallsBack ==
    ForcedUnknown =>
        /\ loader.res.ret = "list"
        /\ LET l == loader.res.list
               ov == OverridesFor(loader.overrides, loader.res.type_name)
           IN  /\ Len(l) = Len(KnownDict)
               /\ \A i \in DOMAIN l :
                     (l[i].priority # None) <=>
                        (~Excluded(ov, l[i].class_name)
                         /\ get_priority(l[i].cls) # None)

(***************************************************************************)
(* C23. When PROTON_LOADER_OVERRIDES holds more than one force token for   *)
(* a type, be they different or the same, every get_all and get for the    *)
(* type (whose discovery did not fail) raises the "multiple force"         *)
(* RuntimeError and returns nothing.                                       *)
(***************************************************************************)
\* The force tokens ('type=name') of the type of the last call.
ForceTokens ==
    SelectSeq(OverridesFor(loader.overrides, loader.res.type_name),
              LAMBDA x : ~x.minus)

C23_SeveralForcesRejected ==
    (/\ loader.res.op \in {"get_all", "get"}
     /\ loader.res.ret # "RuntimeError: 2 modules with same name"
     /\ Len(ForceTokens) > 1)
        => /\ loader.res.ret = "RuntimeError: multiple force"
           /\ loader.res.list = <<>> /\ loader.res.cls = None

\* The entry points of the type's group have a name in common.
DuplicateNames(type_name) ==
    LET eps == EntryPoints(loader.installation,
                           get_metadata_group_for_typename(type_name)) IN
    \E i, j \in DOMAIN eps : i < j /\ eps[i].name = eps[j].name

\* A step is a get_all or a get of type_name that runs discovery.
Discovers(type_name) ==
    /\ loader.known_types[type_name] = None
    /\ loader'.res.op \in {"get_all", "get"}
    /\ loader'.res.type_name = type_name
    /\ loader'.res # loader.res

\* C24: when the entry points of a type have two entries with the same name,
\* a get_all or get that runs discovery for the type fails with the
\* "2 modules with same name" error, returns no implementation and leaves
\* the type without implementations (so every later lookup fails alike).
C24_DuplicateAbortsDiscovery ==
    [][\A ty \in TypeNames :
          (Discovers(ty) /\ DuplicateNames(ty))
              => /\ loader'.res.ret = "RuntimeError: 2 modules with same name"
                 /\ loader'.res.list = <<>> /\ loader'.res.cls = None
                 /\ loader'.known_types[ty] = None]_vars

\* cls is registered under type_name with the name n.
Registered(type_name, n, cls) ==
    /\ loader.known_types[type_name] # None
    /\ DictGet(loader.known_types[type_name].v, n) = Some(cls)

\* C25: in every state of the Loader, get_name(cls) gives (type, name)
\* only if cls is registered under that type with that name, and gives a
\* pair for every registered class: a class replaced by set_all, dropped by
\* reset or discarded by an aborted discovery has no reverse-lookup entry.
C25_ReverseLookupExact ==
    \A cls \in Classes :
        LET r == get_name(loader, cls) IN
        /\ r # None => /\ r.v[1] \in TypeNames
                       /\ Registered(r.v[1], r.v[2], cls)
        /\ (\E ty \in TypeNames, n \in ClassNames : Registered(ty, n, cls))
               => r # None

\* Task t hands an ordinary generic request to the Transport in this step.
SendsOrdinaryRequest(t) ==
    /\ ~tasks'[t].ncc
    /\ Len(tasks'[t].sentLog) > Len(tasks[t].sentLog)
    /\ tasks'[t].sentLog[Len(tasks'[t].sentLog)] = "request"

\* C26: no ordinary generic request is handed to the Transport while the
\* gate is closed, a request resumed by the opening of the gate included.
C26_NoRequestThroughClosedGate ==
    [][\A t \in Tasks :
          SendsOrdinaryRequest(t) => session'.can_run_requests # "clear"]_vars

\* Task t, a generic request, ran the refresh bound to the revision it
\* observed: the invocation went past the revision test.
RefreshedFor(t) ==
    /\ tasks[t].op = "api_request"
    /\ tasks[t].nrf > 0
    /\ tasks[t].only # None
    /\ ~tasks[t].rfSkipped

\* C28: of the concurrent generic requests that get 401 after observing the
\* same refresh revision, one only runs the refresh (increments the
\* revision and sends the refresh call), the others' invocations send
\* nothing; and the refresh revision never decreases.
C28_OneRefreshPerRevision ==
    [][/\ session'.refresh_revision >= session.refresh_revision
       /\ \A t, u \in Tasks :
             (t # u /\ RefreshedFor(t)' /\ RefreshedFor(u)')
                 => tasks'[t].only # tasks'[u].only]_vars

\* C29: once the environment of a session is established it never changes:
\* assigning to session.environment raises and leaves it as it is, and no
\* other step, a restore included, replaces it.
C29_EnvironmentEstablishedOnce ==
    [][session.environment # None =>
          /\ session'.environment = session.environment
          /\ ev'.pc = "environment" => ev'.ret = "ValueError"]_vars

\* The discovery enumeration of each type has run at most once since the
\* last reset.
DiscoveredOnce == \A ty \in TypeNames : loader.runs[ty] <= 1

\* The names discovery registers for type_name when its loop is not cut
\* short: those of the entry points that load.
Loadable(type_name) ==
    LET eps == EntryPoints(loader.installation,
                           get_metadata_group_for_typename(type_name)) IN
    {eps[i].name : i \in {j \in DOMAIN eps : eps[j].load = "ok"}}

\* A get_all that returned a list built from a discovered dict had the whole
\* discovered set before it.
NoPartialSetObserved ==
    (/\ GetAllReturned
     /\ loader.origin[loader.res.type_name] = "discovery")
        => \A n \in Loadable(loader.res.type_name) : HasKey(KnownDict, n)

\* C27: between two resets, whatever the interleaving of the get_all calls
\* of several threads, the discovery enumeration of a type runs at most once
\* (later calls never run it again) and no caller observes a partially
\* populated implementation set.
C27_DiscoveryOnceAndWhole == DiscoveredOnce /\ NoPartialSetObserved

====
